---- MODULE Spec2Model ----
(***************************************************************************)
(* Model of the geometric core of CABS/utils.py: the side chain modeler    *)
(* (SCModeler), kabsch, rmsd and dynamic_kabsch; and of the restraint      *)
(* containers of cabsDock/restraints.py.                                   *)
(*                                                                         *)
(* Numbers.  Backbone points of the side chain modeler are points of the   *)
(* integer lattice, and the vectors derived from them are kept exactly: a  *)
(* normalised vector v / |v| is the record [v, n2] with n2 = |v|^2, so     *)
(* that dot products, orthogonality and cos^2 + sin^2 are decided in       *)
(* integer arithmetic.  A division by a zero norm gives NaN (n2 = 0) under *)
(* numpy's default error settings and raises FloatingPointError under      *)
(* 'raise'.  Where a decimal value is needed (entries of the rotation      *)
(* matrix, coordinates and RMSD of the superposition code) it is a         *)
(* fixed-point integer counting ticks of 1/Tick, rounded towards zero.     *)
(***************************************************************************)
EXTENDS Integers, Sequences, FiniteSets, TLC

VARIABLES
    np_err,   \* numpy's process-wide floating point error setting (np.geterr)
    pc,       \* position of the running call
    args,     \* arguments of the running call
    locals,   \* local variables of the running call
    ret       \* what the call returned or raised

vars == <<np_err, pc, args, locals, ret>>

None == "None"

-----------------------------------------------------------------------------
(* Integer helpers.                                                        *)

Abs(a) == IF a < 0 THEN -a ELSE a

\* np.sign on a finite number
Sign(a) == IF a > 0 THEN 1 ELSE IF a < 0 THEN -1 ELSE 0

Max(a, b) == IF a >= b THEN a ELSE b

Min(a, b) == IF a <= b THEN a ELSE b

\* ticks per unit of the fixed-point decimals
Tick == 100 * 100

\* <<q, r>> with a * b = q * c + r and 0 <= r < c, for a, b >= 0 and c > 0,
\* computed by doubling so that no intermediate value leaves 32 bits
RECURSIVE MulDivRem(_, _, _)
MulDivRem(a, b, c) ==
    IF a = 0 \/ b = 0 THEN <<0, 0>>
    ELSE IF a < 46341 /\ b < 46341 THEN <<(a * b) \div c, (a * b) % c>>
    ELSE LET h  == MulDivRem(a, b \div 2, c)
             qa == IF b % 2 = 1 THEN a \div c ELSE 0
             ra == IF b % 2 = 1 THEN a % c ELSE 0
             rs == 2 * h[2] + ra
         IN  <<2 * h[1] + qa + rs \div c, rs % c>>

\* floor(a * b / c) for a, b >= 0
MulDiv(a, b, c) == MulDivRem(a, b, c)[1]

\* floor(sqrt(n)) for 0 <= n < 2^31, by bisection on lo <= root < hi
RECURSIVE IsqrtIn(_, _, _)
IsqrtIn(n, lo, hi) ==
    IF hi - lo <= 1 THEN lo
    ELSE LET mid == (lo + hi) \div 2
         IN  IF mid * mid <= n THEN IsqrtIn(n, mid, hi) ELSE IsqrtIn(n, lo, mid)

Isqrt(n) == IsqrtIn(n, 0, 46341)

-----------------------------------------------------------------------------
(* Vectors of the integer lattice.                                         *)

VSub(a, b) == <<a[1] - b[1], a[2] - b[2], a[3] - b[3]>>

VAdd(a, b) == <<a[1] + b[1], a[2] + b[2], a[3] + b[3]>>

VNeg(a) == <<-a[1], -a[2], -a[3]>>

\* np.dot of two vectors
Dot(a, b) == a[1] * b[1] + a[2] * b[2] + a[3] * b[3]

\* np.cross
Cross(a, b) == <<a[2] * b[3] - a[3] * b[2],
                 a[3] * b[1] - a[1] * b[3],
                 a[1] * b[2] - a[2] * b[1]>>

Zero3 == <<0, 0, 0>>

\* the vector v / sqrt(n2); n2 = 0 stands for a vector of NaN
NVec(v, n2) == [v |-> v, n2 |-> n2]

\* v / np.linalg.norm(v): NaN (0 / 0) when v is the zero vector
Normalized(v) == NVec(v, Dot(v, v))

IsNaN(u) == u.n2 = 0

\* np.array((1, 0, 0)) and np.array((0, 0, 1))
WorldX == NVec(<<1, 0, 0>>, 1)

WorldZ == NVec(<<0, 0, 1>>, 1)

-----------------------------------------------------------------------------
(* Fixed-point decimals that may be NaN.                                   *)

FP(v) == [nan |-> FALSE, v |-> v]

FNaN == [nan |-> TRUE, v |-> 0]

\* a * b, truncated towards zero; NaN if either factor is NaN
FMul(a, b) ==
    IF a.nan \/ b.nan THEN FNaN
    ELSE FP(Sign(a.v) * Sign(b.v) * MulDiv(Abs(a.v), Abs(b.v), Tick))

FAdd(a, b) == IF a.nan \/ b.nan THEN FNaN ELSE FP(a.v + b.v)

FSub(a, b) == IF a.nan \/ b.nan THEN FNaN ELSE FP(a.v - b.v)

FNeg(a) == IF a.nan THEN FNaN ELSE FP(-a.v)

-----------------------------------------------------------------------------
(* SCModeler: local system and rotation matrix of one alpha carbon.        *)

\* np.geterr() of a process that never called np.seterr
ErrDefault == "warn"

\* np.seterr(all='raise')
ErrRaise == "raise"

FloatingPointError == "FloatingPointError"

IndexError == "IndexError"

\* an exception that is not a FloatingPointError
KeyboardInterrupt == "KeyboardInterrupt"

\* SCModeler._mk_local_system(c1, c2, c3) under the error setting err:
\* the two divisions by a norm raise under 'raise' when the norm is 0 and
\* give NaN otherwise.  rdnorm is kept as its square rdnorm2.
_mk_local_system(c1, c2, c3, err) ==
    LET rdif    == VSub(c3, c1)
        rdnorm2 == Dot(rdif, rdif)
        rsum    == VAdd(VSub(c3, c2), VSub(c1, c2))
        z       == Normalized(VNeg(rsum))
        x       == NVec(rdif, rdnorm2)
        y       == NVec(Cross(z.v, x.v), z.n2 * x.n2)
    IN  [raised  |-> err = ErrRaise /\ (IsNaN(z) \/ IsNaN(x)),
         x |-> x, y |-> y, z |-> z, rdnorm2 |-> rdnorm2]

\* a _calc_nodes_line that divides 0 by 0 quietly, as under 'warn'
_calc_nodes_line_quiet(old_v, new_v) ==
    [raised |-> FALSE,
     w |-> IF IsNaN(old_v) \/ IsNaN(new_v) THEN NVec(Zero3, 0)
           ELSE Normalized(Cross(old_v.v, new_v.v))]

\* SCModeler._calc_nodes_line(old_v, new_v), called under np.seterr(all='raise'):
\* w / norm(w) raises FloatingPointError for w = 0 (0 / 0); a NaN operand
\* passes through the cross product, the norm and the division quietly.
_calc_nodes_line(old_v, new_v) ==
    LET w == Cross(old_v.v, new_v.v)
    IN  IF IsNaN(old_v) \/ IsNaN(new_v)
        THEN [raised |-> FALSE, w |-> NVec(Zero3, 0)]
        ELSE [raised |-> w = Zero3, w |-> Normalized(w)]

\* SCModeler._calc_trig_fnc(ve1, ve2, axis):
\*   cos = cn / sqrt(d2),  sin = sg * sqrt(s2 / d2)
\* with cn = ve1.v . ve2.v, s2 = |ve1.v x ve2.v|^2, d2 = ve1.n2 * ve2.n2 and
\* sg = np.sign(dot(perp_vec, axis)).
_calc_trig_fnc(ve1, ve2, axis) ==
    LET perp_vec == Cross(ve1.v, ve2.v)
    IN  [cnan |-> IsNaN(ve1) \/ IsNaN(ve2),
         snan |-> IsNaN(ve1) \/ IsNaN(ve2) \/ IsNaN(axis),
         cn   |-> Dot(ve1.v, ve2.v),
         s2   |-> Dot(perp_vec, perp_vec),
         sg   |-> Sign(Dot(perp_vec, axis.v)),
         d2   |-> ve1.n2 * ve2.n2]

\* the cosine and the sine of a pair as decimals
CosOf(t) ==
    IF t.cnan THEN FNaN
    ELSE FP(Sign(t.cn) * Isqrt(MulDiv(t.cn * t.cn, Tick * Tick, t.d2)))

SinOf(t) ==
    IF t.snan THEN FNaN
    ELSE FP(t.sg * Isqrt(MulDiv(t.s2, Tick * Tick, t.d2)))

\* the np.matrix assembled in SCModeler._calc_rot_mtx
RotMatrix(ph, ps, th) ==
    LET cph == CosOf(ph)  sph == SinOf(ph)
        cps == CosOf(ps)  sps == SinOf(ps)
        cth == CosOf(th)  sth == SinOf(th)
    IN  << << FSub(FMul(cps, cph), FMul(FMul(sps, sph), cth)),
              FAdd(FMul(sph, cps), FMul(FMul(sps, cth), cph)),
              FMul(sps, sth) >>,
           << FSub(FMul(FNeg(sps), cph), FMul(FMul(sph, cps), cth)),
              FAdd(FMul(FNeg(sps), sph), FMul(FMul(cps, cth), cph)),
              FMul(cps, sth) >>,
           << FMul(sth, sph), FMul(FNeg(sth), cph), cth >> >>

\* SCModeler._calc_rot_mtx(c1, c2, c3) entered under the error setting err.
\* raised: the exception that leaves the call, or None; err: the setting
\* the call leaves behind; fallback: the except branch w = x was taken.
_calc_rot_mtx(c1, c2, c3, err) ==
    LET ls == _mk_local_system(c1, c2, c3, err)
        nl == _calc_nodes_line(WorldZ, ls.z)
        w  == IF nl.raised THEN ls.x ELSE nl.w
        ph == _calc_trig_fnc(WorldX, w, WorldZ)
        ps == _calc_trig_fnc(w, ls.x, ls.z)
        th == _calc_trig_fnc(WorldZ, ls.z, w)
    IN  IF ls.raised
        THEN [raised |-> FloatingPointError, err |-> err]
        ELSE [raised |-> None, err |-> err, fallback |-> nl.raised,
              x |-> ls.x, y |-> ls.y, z |-> ls.z, w |-> w,
              ph |-> ph, ps |-> ps, th |-> th,
              rot |-> RotMatrix(ph, ps, th), rdnorm2 |-> ls.rdnorm2]

\* SCModeler._calc_rot_mtx(c1, c2, c3) entered under the error setting err
\* when an exception other than FloatingPointError is raised inside the try
\* block of lines 661-664: no except clause catches it and line 665 is not
\* reached, so the setting of line 660 stays.
_calc_rot_mtx_interrupted(c1, c2, c3, err) ==
    IF _mk_local_system(c1, c2, c3, err).raised
    THEN [raised |-> FloatingPointError, err |-> err]
    ELSE [raised |-> KeyboardInterrupt, err |-> ErrRaise]

-----------------------------------------------------------------------------
(* Specification SpecFrame: one call of SCModeler._calc_rot_mtx on a       *)
(* triplet of lattice points.  The call ends by returning, by the          *)
(* FloatingPointError of the local system, or by an exception that arrives *)
(* while the line of nodes is computed.                                    *)

\* bound: coordinates of c1 and c3 lie in -MaxCoord..MaxCoord
MaxCoord == 1

\* bound: the centre c2 is (k, k, k) for a k in 0..MaxCentre
MaxCentre == 0

Centres == {<<k, k, k>> : k \in 0..MaxCentre}

Lattice(lo, hi) == {<<a, b, c>> : a \in lo..hi, b \in lo..hi, c \in lo..hi}

ErrSettings == {ErrDefault, ErrRaise}

InitFrame ==
    /\ np_err \in ErrSettings
    /\ pc = "_calc_rot_mtx"
    /\ \E c1 \in Lattice(-MaxCoord, MaxCoord), c3 \in Lattice(-MaxCoord, MaxCoord),
          c2 \in Centres :
           args = [c1 |-> c1, c2 |-> c2, c3 |-> c3, entered |-> np_err]
    /\ locals = <<>>
    /\ ret = None

\* the whole call self._calc_rot_mtx(c1, c2, c3)
CalcRotMtx ==
    /\ pc = "_calc_rot_mtx"
    /\ \E r \in {_calc_rot_mtx(args.c1, args.c2, args.c3, np_err)} :
           /\ ret' = r
           /\ np_err' = r.err
           /\ pc' = IF r.raised = None THEN "returned" ELSE "raised"
    /\ UNCHANGED <<args, locals>>

\* the call when an exception other than FloatingPointError leaves the try
\* block
CalcRotMtxInterrupted ==
    /\ pc = "_calc_rot_mtx"
    /\ \E r \in {_calc_rot_mtx_interrupted(args.c1, args.c2, args.c3, np_err)} :
           /\ r.raised = KeyboardInterrupt
           /\ ret' = r
           /\ np_err' = r.err
           /\ pc' = "raised"
    /\ UNCHANGED <<args, locals>>

NextFrame == CalcRotMtx \/ CalcRotMtxInterrupted

SpecFrame == InitFrame /\ [][NextFrame]_vars

-----------------------------------------------------------------------------
(* Properties of the local system and of the rotation matrix.             *)

\* the span |c3 - c1| and the bisector (c3 - c2) + (c1 - c2) of the
\* triplet in args are both nonzero
NonDegenerate(a) ==
    /\ VSub(a.c3, a.c1) # Zero3
    /\ VAdd(VSub(a.c3, a.c2), VSub(a.c1, a.c2)) # Zero3

\* u and w are the same vector: u.v / sqrt(u.n2) = w.v / sqrt(w.n2)
SameVec(u, w) ==
    \A i \in 1..3 : /\ Sign(u.v[i]) = Sign(w.v[i])
                    /\ u.v[i] * u.v[i] * w.n2 = w.v[i] * w.v[i] * u.n2

\* |u| = 1
UnitLength(u) == Dot(u.v, u.v) = u.n2

Orthonormal(x, y, z) ==
    /\ Dot(x.v, y.v) = 0 /\ Dot(y.v, z.v) = 0 /\ Dot(x.v, z.v) = 0
    /\ UnitLength(x) /\ UnitLength(y) /\ UnitLength(z)

RightHanded(x, y, z) ==
    /\ SameVec(y, NVec(Cross(z.v, x.v), z.n2 * x.n2))
    /\ SameVec(z, NVec(Cross(x.v, y.v), x.n2 * y.n2))

\* the two distances |c1 - c2| and |c3 - c2| of the triplet in args agree
EqualBonds(a) ==
    Dot(VSub(a.c1, a.c2), VSub(a.c1, a.c2)) = Dot(VSub(a.c3, a.c2), VSub(a.c3, a.c2))

\* C7: for every triplet with nonzero span and nonzero bisector the local
\* system (x, y, z) is pairwise orthogonal, of unit length and right-handed,
\* whatever the two distances |c1 - c2| and |c3 - c2| are.
C7_FrameOrthonormal ==
    (pc = "returned" /\ NonDegenerate(args))
        => Orthonormal(ret.x, ret.y, ret.z) /\ RightHanded(ret.x, ret.y, ret.z)

\* a returned local system of a nondegenerate triplet with unequal bond
\* lengths whose x and z are not orthogonal
C7_SkewFrame ==
    /\ pc = "returned" /\ NonDegenerate(args) /\ ~EqualBonds(args)
    /\ Dot(ret.x.v, ret.z.v) # 0

\* cos^2 + sin^2 = 1 for a pair of _calc_trig_fnc
UnitPair(t) ==
    /\ ~t.cnan /\ ~t.snan
    /\ t.cn * t.cn + t.sg * t.sg * t.s2 = t.d2

\* c1, c2, c3 lie on one line
Collinear(a) == Cross(VSub(a.c1, a.c2), VSub(a.c3, a.c2)) = Zero3

\* C9: for every non-collinear triplet each of the three (cos, sin) pairs
\* of _calc_rot_mtx satisfies cos^2 + sin^2 = 1 (so that the matrix built
\* from them is orthonormal with determinant +1), also when the sign factor
\* of a sine is 0.
C9_TrigPairsUnit ==
    (pc = "returned" /\ ~Collinear(args))
        => UnitPair(ret.ph) /\ UnitPair(ret.ps) /\ UnitPair(ret.th)

\* a returned matrix of a non-collinear triplet whose psi pair has sign
\* factor 0 although w and x are not parallel: sin = 0 and cos^2 < 1
C9_ZeroSignFactor ==
    /\ pc = "returned" /\ ~Collinear(args)
    /\ ~ret.ps.cnan /\ ~ret.ps.snan
    /\ ret.ps.sg = 0 /\ ret.ps.s2 # 0
    /\ ret.ps.cn * ret.ps.cn < ret.ps.d2

\* the local z of a returned call is parallel or antiparallel to the z
\* axis of the world
ZAlongWorldZ == ~IsNaN(ret.z) /\ Cross(WorldZ.v, ret.z.v) = Zero3

\* C15: a call whose local system is computed (nonzero span and bisector)
\* never fails with a FloatingPointError; when the cross product (0,0,1) x z is the zero vector
\* the line of nodes it uses is the local x, and in every other case it is
\* that cross product divided by its norm.
C15_NodesLineFallback ==
    /\ (NonDegenerate(args) /\ pc = "raised") => ret.raised # FloatingPointError
    /\ pc = "returned" =>
           IF ZAlongWorldZ
           THEN ret.fallback /\ ret.w = ret.x
           ELSE /\ ~ret.fallback
                /\ ret.w = IF IsNaN(ret.z) THEN NVec(Zero3, 0)
                            ELSE Normalized(Cross(WorldZ.v, ret.z.v))

\* a call on a nondegenerate triplet whose z is along the world's z has
\* returned a matrix without NaN, built with the local x as line of nodes
C15_FallbackTaken ==
    /\ pc = "returned"
    /\ NonDegenerate(args)
    /\ ZAlongWorldZ
    /\ ret.w = ret.x
    /\ \A i \in 1..3 : \A k \in 1..3 : ~ret.rot[i][k].nan

\* C20: on every way a call of _calc_rot_mtx can end (returning with or
\* without the fallback, or with an exception leaving it) numpy's error
\* setting is the one the call was entered with.
C20_ErrSettingRestored ==
    pc \in {"returned", "raised"} => np_err = args.entered

\* the setting is the one at entry on every way the call ends but that of
\* an exception other than FloatingPointError leaving the try block
RestoredUnlessInterrupted ==
    (pc \in {"returned", "raised"} /\ ret.raised # KeyboardInterrupt)
        => np_err = args.entered

\* a call entered under numpy's default setting has ended with an exception
\* from the try block and left the setting 'raise' behind
C20_RaiseLeftBehind ==
    /\ pc = "raised"
    /\ ret.raised = KeyboardInterrupt
    /\ args.entered = ErrDefault
    /\ np_err = ErrRaise

-----------------------------------------------------------------------------
(* Natural numbers of any size: little-endian sequences of limbs below     *)
(* Base with no leading zero limb, <<>> for 0.  They carry the 53-bit      *)
(* significands of IEEE-754 doubles.                                       *)

LimbBits == 3 * 5

Base == 2^LimbBits

RECURSIVE BTrim(_)
BTrim(a) ==
    IF a = <<>> THEN a
    ELSE IF a[Len(a)] = 0 THEN BTrim(SubSeq(a, 1, Len(a) - 1)) ELSE a

RECURSIVE BFromInt(_)
BFromInt(n) == IF n = 0 THEN <<>> ELSE <<n % Base>> \o BFromInt(n \div Base)

Limb(a, i) == IF i <= Len(a) THEN a[i] ELSE 0

RECURSIVE BAddC(_, _, _, _)
BAddC(a, b, i, c) ==
    IF i > Len(a) /\ i > Len(b) THEN (IF c = 0 THEN <<>> ELSE <<c>>)
    ELSE LET s == Limb(a, i) + Limb(b, i) + c
         IN  <<s % Base>> \o BAddC(a, b, i + 1, s \div Base)

BAdd(a, b) == BAddC(a, b, 1, 0)

RECURSIVE BSubC(_, _, _, _)
BSubC(a, b, i, br) ==
    IF i > Len(a) THEN <<>>
    ELSE LET d == a[i] - Limb(b, i) - br
         IN  <<IF d < 0 THEN d + Base ELSE d>>
                 \o BSubC(a, b, i + 1, IF d < 0 THEN 1 ELSE 0)

\* a - b for a >= b
BSub(a, b) == BTrim(BSubC(a, b, 1, 0))

RECURSIVE BCmpAt(_, _, _)
BCmpAt(a, b, i) ==
    IF i = 0 THEN 0
    ELSE IF a[i] # b[i] THEN Sign(a[i] - b[i]) ELSE BCmpAt(a, b, i - 1)

\* -1, 0 or 1 as a < b, a = b or a > b
BCmp(a, b) ==
    IF Len(a) # Len(b) THEN Sign(Len(a) - Len(b)) ELSE BCmpAt(a, b, Len(a))

RECURSIVE BMulC(_, _, _, _)
BMulC(a, k, i, c) ==
    IF i > Len(a) THEN (IF c = 0 THEN <<>> ELSE <<c>>)
    ELSE LET p == a[i] * k + c
         IN  <<p % Base>> \o BMulC(a, k, i + 1, p \div Base)

\* a * k for 0 <= k < Base
BMulSmall(a, k) == BTrim(BMulC(a, k, 1, 0))

BShiftLimbs(a, n) == IF a = <<>> THEN a ELSE [i \in 1..n |-> 0] \o a

RECURSIVE BMulAt(_, _, _)
BMulAt(a, b, j) ==
    IF j > Len(b) THEN <<>>
    ELSE BAdd(BShiftLimbs(BMulSmall(a, b[j]), j - 1), BMulAt(a, b, j + 1))

BMul(a, b) == BMulAt(a, b, 1)

\* a * 2^n
BShl(a, n) == BShiftLimbs(BMulSmall(a, 2^(n % LimbBits)), n \div LimbBits)

RECURSIVE BDivC(_, _, _, _)
BDivC(a, k, i, r) ==
    IF i = 0 THEN <<>>
    ELSE LET cur == r * Base + a[i]
         IN  BDivC(a, k, i - 1, cur % k) \o <<cur \div k>>

\* floor(a / k) for 0 < k <= Base
BDivSmall(a, k) == BTrim(BDivC(a, k, Len(a), 0))

\* floor(a / 2^n)
BShr(a, n) ==
    IF n \div LimbBits >= Len(a) THEN <<>>
    ELSE BDivSmall(SubSeq(a, n \div LimbBits + 1, Len(a)), 2^(n % LimbBits))

RECURSIVE SmallBitLen(_)
SmallBitLen(k) == IF k = 0 THEN 0 ELSE 1 + SmallBitLen(k \div 2)

\* the number of bits of a
BBitLen(a) ==
    IF a = <<>> THEN 0 ELSE LimbBits * (Len(a) - 1) + SmallBitLen(a[Len(a)])

BBit(a, i) == (Limb(a, i \div LimbBits + 1) \div 2^(i % LimbBits)) % 2

BIsOdd(a) == a # <<>> /\ a[1] % 2 = 1

\* <<q, r>> continued over the bits hi, hi - 1, ..., lo of a in binary long
\* division by b: on entry a's bits above hi give q * b + r
RECURSIVE BDivBits(_, _, _, _, _, _)
BDivBits(a, b, hi, lo, q, r) ==
    IF hi < lo THEN <<q, r>>
    ELSE LET r2 == BAdd(BMulSmall(r, 2), BFromInt(BBit(a, hi)))
         IN  IF Len(q) >= 0 /\ BCmp(r2, b) >= 0
             THEN BDivBits(a, b, hi - 1, lo, BAdd(BMulSmall(q, 2), <<1>>), BSub(r2, b))
             ELSE BDivBits(a, b, hi - 1, lo, BMulSmall(q, 2), r2)

\* the same, one limb of bits at a time, to keep the recursion shallow
RECURSIVE BDivLimbs(_, _, _, _)
BDivLimbs(a, b, hi, st) ==
    IF hi < 0 \/ Len(st) # 2 THEN st
    ELSE BDivLimbs(a, b, hi - LimbBits,
                   BDivBits(a, b, hi, Max(hi - LimbBits + 1, 0), st[1], st[2]))

\* <<q, r>> with a = q * b + r and r < b
BDivMod(a, b) == BDivLimbs(a, b, BBitLen(a) - 1, <<<<>>, <<>>>>)

\* floor(sqrt(n)) continued over the bits hi, ..., lo of the root
RECURSIVE BSqrtBits(_, _, _, _)
BSqrtBits(n, hi, lo, r) ==
    IF hi < lo THEN r
    ELSE LET t == BAdd(r, BShl(<<1>>, hi))
         IN  IF BCmp(BMul(t, t), n) <= 0
             THEN BSqrtBits(n, hi - 1, lo, t)
             ELSE BSqrtBits(n, hi - 1, lo, r)

RECURSIVE BSqrtLimbs(_, _, _)
BSqrtLimbs(n, hi, r) ==
    IF hi < 0 \/ Len(r) < 0 THEN r
    ELSE BSqrtLimbs(n, hi - LimbBits,
                    BSqrtBits(n, hi, Max(hi - LimbBits + 1, 0), r))

\* floor(sqrt(n))
BSqrt(n) == BSqrtLimbs(n, BBitLen(n) \div 2, <<>>)

-----------------------------------------------------------------------------
(* IEEE-754 doubles: [neg, m, e] is (-1)^neg * m * 2^e with a significand   *)
(* 2^52 <= m < 2^53, or m = 0.  Every operation rounds its exact result to *)
(* nearest, ties to even.  Exponents stay far from the subnormal and the   *)
(* overflow range for the values used here.                                *)

MantBits == 53 * 1

DZero == [neg |-> FALSE, m |-> <<>>, e |-> 0]

\* the double nearest to (-1)^neg * (n + f) * 2^e, where 0 <= f < 1 and
\* sticky says that f > 0 (n then has more than MantBits bits)
DRound(neg, n, e, sticky) ==
    LET L    == BBitLen(n)
        sh   == L - MantBits
        q    == BShr(n, sh)
        c    == BCmp(BSub(n, BShl(q, sh)), BShl(<<1>>, sh - 1))
        up   == c > 0 \/ (c = 0 /\ (sticky \/ BIsOdd(q)))
        q2   == IF up THEN BAdd(q, <<1>>) ELSE q
    IN  IF n = <<>> THEN DZero
        ELSE IF sh <= 0 THEN [neg |-> neg, m |-> BShl(n, -sh), e |-> e + sh]
        ELSE IF BBitLen(q2) > MantBits
             THEN [neg |-> neg, m |-> BShr(q2, 1), e |-> e + sh + 1]
             ELSE [neg |-> neg, m |-> q2, e |-> e + sh]

\* float(k) of an integer k
DFromInt(k) == DRound(k < 0, BFromInt(Abs(k)), 0, FALSE)

DNeg(a) == IF a.m = <<>> THEN a ELSE [a EXCEPT !.neg = ~a.neg]

\* -1, 0 or 1 as |a| < |b|, |a| = |b| or |a| > |b|
DCmpAbs(a, b) ==
    IF a.m = <<>> \/ b.m = <<>>
    THEN (IF a.m # <<>> THEN 1 ELSE IF b.m # <<>> THEN -1 ELSE 0)
    ELSE IF a.e # b.e THEN Sign(a.e - b.e) ELSE BCmp(a.m, b.m)

DSign(a) == IF a.m = <<>> THEN 0 ELSE IF a.neg THEN -1 ELSE 1

\* -1, 0 or 1 as a < b, a = b or a > b
DCmp(a, b) ==
    IF DSign(a) # DSign(b) THEN Sign(DSign(a) - DSign(b))
    ELSE DSign(a) * DCmpAbs(a, b)

DLess(a, b) == DCmp(a, b) < 0

\* a + b
DAdd(a, b) ==
    IF a.m = <<>> THEN b
    ELSE IF b.m = <<>> THEN a
    ELSE LET emin == Min(a.e, b.e)
             A    == BShl(a.m, a.e - emin)
             B    == BShl(b.m, b.e - emin)
         IN  IF a.neg = b.neg THEN DRound(a.neg, BAdd(A, B), emin, FALSE)
             ELSE IF BCmp(A, B) >= 0 THEN DRound(a.neg, BSub(A, B), emin, FALSE)
             ELSE DRound(b.neg, BSub(B, A), emin, FALSE)

\* a - b
DSub(a, b) == DAdd(a, DNeg(b))

\* a * b
DMul(a, b) ==
    IF a.m = <<>> \/ b.m = <<>> THEN DZero
    ELSE DRound(a.neg # b.neg, BMul(a.m, b.m), a.e + b.e, FALSE)

\* a / b for b # 0
DDiv(a, b) ==
    IF a.m = <<>> THEN DZero
    ELSE LET k  == MantBits + 7
             qr == BDivMod(BShl(a.m, k), b.m)
         IN  DRound(a.neg # b.neg, qr[1], a.e - b.e - k, qr[2] # <<>>)

\* np.sqrt(a) for a >= 0
DSqrt(a) ==
    IF a.m = <<>> THEN DZero
    ELSE LET k == IF (a.e - MantBits) % 2 = 0 THEN MantBits + 2 ELSE MantBits + 3
             n == BShl(a.m, k)
             r == BSqrt(n)
         IN  DRound(FALSE, r, (a.e - k) \div 2, BMul(r, r) # n)

\* the double a decimal literal p/q denotes, e.g. 5.3 as Dec(53, 10)
Dec(p, q) == DDiv(DFromInt(p), DFromInt(q))

RECURSIVE BToInt(_)
BToInt(a) == IF a = <<>> THEN 0 ELSE a[1] + Base * BToInt(Tail(a))

\* a as a fixed-point decimal in ticks, rounded towards zero
DToTicks(a) ==
    LET n == BMulSmall(a.m, Tick)
    IN  DSign(a) * BToInt(IF a.e >= 0 THEN BShl(n, a.e) ELSE BShr(n, -a.e))

-----------------------------------------------------------------------------
(* SCModeler._calc_scatter_coef in double arithmetic.                      *)

_calc_scatter_coef(dist) ==
    IF DLess(dist, Dec(53, 10)) THEN DFromInt(1)
    ELSE IF DLess(Dec(64, 10), dist) THEN DZero
    ELSE DAdd(DMul(DSub(dist, Dec(53, 10)), DNeg(DDiv(DFromInt(1), Dec(11, 10)))),
              DFromInt(1))

-----------------------------------------------------------------------------
(* Specification SpecScatter: one call of _calc_scatter_coef on a distance *)
(* written with two decimals.                                              *)

\* bound: distances run from DistLo / 100 ...
DistLo == 500

\* bound: ... to DistHi / 100
DistHi == 680

\* the double of the literal k / 100
Centi(k) == Dec(k, 100)

InitScatter ==
    /\ np_err = ErrDefault
    /\ pc = "_calc_scatter_coef"
    /\ \E k \in DistLo..DistHi : args = [k |-> k, dist |-> Centi(k)]
    /\ locals = <<>>
    /\ ret = None

\* the whole call _calc_scatter_coef(dist)
CalcScatterCoef ==
    /\ pc = "_calc_scatter_coef"
    /\ ret' = _calc_scatter_coef(args.dist)
    /\ pc' = "returned"
    /\ UNCHANGED <<np_err, args, locals>>

NextScatter == CalcScatterCoef

SpecScatter == InitScatter /\ [][NextScatter]_vars

\* 0.0 <= a <= 1.0
InUnitInterval(a) == ~DLess(a, DZero) /\ ~DLess(DFromInt(1), a)

\* C10: the scatter coefficient is 1.0 below 5.3, 0.0 above 6.4 and
\* (dist - 5.3) * (-1 / 1.1) + 1 in between; it is 1.0 at 5.3 and 0.0 at
\* 6.4, lies in [0, 1] and does not increase with the distance.
C10_ScatterCoef ==
    pc = "returned" =>
        /\ args.k < 530 => ret = DFromInt(1)
        /\ args.k > 640 => ret = DZero
        /\ args.k = 530 => ret = DFromInt(1)
        /\ args.k = 640 => ret = DZero
        /\ InUnitInterval(ret)
        /\ args.k < DistHi => ~DLess(ret, _calc_scatter_coef(Centi(args.k + 1)))

\* the parts of C10 that do not involve the value at 6.4
C10_AwayFrom64 ==
    (pc = "returned" /\ args.k # 640) =>
        /\ args.k < 530 => ret = DFromInt(1)
        /\ args.k > 640 => ret = DZero
        /\ args.k = 530 => ret = DFromInt(1)
        /\ InUnitInterval(ret)
        /\ (args.k < DistHi /\ args.k + 1 # 640)
               => ~DLess(ret, _calc_scatter_coef(Centi(args.k + 1)))

\* the call on the literal 6.4 has returned a negative number
C10_NegativeAt64 == pc = "returned" /\ args.k = 640 /\ DLess(ret, DZero)

-----------------------------------------------------------------------------
(* SCModeler.rebuild_one.                                                  *)

KeyError == "KeyError"

\* the side chain table, in thousandths
SIDECNT ==
    [CYS |-> <<-139, -1265, 1619, 19, -813, 1897>>,
     GLN |-> <<-95, -1674, 2612, 47, -886, 2991>>,
     ILE |-> <<94, -1416, 1836, -105, -659, 2219>>,
     SER |-> <<121, -1476, 1186, 223, -1042, 1571>>,
     VAL |-> <<264, -1194, 1531, 77, -631, 1854>>,
     MET |-> <<-40, -1446, 2587, 72, -810, 2883>>,
     PRO |-> <<-751, -1643, 467, -1016, -1228, 977>>,
     LYS |-> <<32, -1835, 2989, 2, -882, 3405>>,
     THR |-> <<75, -1341, 1398, 51, -909, 1712>>,
     PHE |-> <<151, -1256, 3161, -448, -791, 3286>>,
     ALA |-> <<253, -1133, 985, 119, -763, 1312>>,
     HIS |-> <<-301, -1405, 2801, -207, -879, 3019>>,
     GLY |-> <<0, -111, -111, 0, -111, -111>>,
     ASP |-> <<-287, -1451, 1989, 396, -798, 2313>>,
     GLU |-> <<-28, -1774, 2546, 96, -923, 3016>>,
     LEU |-> <<-69, -1247, 2292, 2, -462, 2579>>,
     ARG |-> <<-57, -2522, 3639, -57, -1210, 3986>>,
     TRP |-> <<558, -1694, 3433, -60, -574, 3834>>,
     ASN |-> <<-402, -1237, 2111, 132, -863, 2328>>,
     TYR |-> <<308, -1387, 3492, -618, -799, 3634>>]

\* k thousandths as a decimal
Milli(k) == FP(k * (Tick \div 1000))

\* np.linalg.norm of an integer vector of squared length n2
Norm(n2) == DSqrt(DFromInt(n2))

\* a padding that forgets the appended point
PaddedFrontOnly(vec) == <<VSub(vec[1], VSub(vec[3], vec[2]))>> \o vec

\* a padding whose appended point is computed one position too far from
\* the end
PaddedOffByOne(vec) ==
    LET v == <<VSub(vec[1], VSub(vec[3], vec[2]))>> \o vec
        m == Len(v)
    IN  Append(v, VAdd(v[m], VSub(v[m - 2], v[m - 3])))

\* lines 698-699: np.insert puts vec[0] - (vec[2] - vec[1]) in front, then
\* np.append adds vec[-1] + (vec[-2] - vec[-3]) of the chain so extended
Padded(vec) ==
    LET v == <<VSub(vec[1], VSub(vec[3], vec[2]))>> \o vec
        m == Len(v)
    IN  Append(v, VAdd(v[m], VSub(v[m - 1], v[m - 2])))

\* a lookup of the residue name that takes alanine for a name without an
\* entry in SIDECNT
NameAtOrAlanine(nms, sc, i) ==
    IF ~sc THEN "ALA"
    ELSE IF i + 1 \notin DOMAIN nms THEN None
    ELSE IF nms[i + 1] \in DOMAIN SIDECNT THEN nms[i + 1] ELSE "ALA"

\* a lookup of the residue name that reads self.nms whatever sc is
NameAtIgnoringFlag(nms, sc, i) ==
    IF i + 1 \in DOMAIN nms THEN nms[i + 1] ELSE None

\* line 702: the residue name of position i (from 0); None when self.nms
\* has no such position
NameAt(nms, sc, i) ==
    IF ~sc THEN "ALA"
    ELSE IF i + 1 \in DOMAIN nms THEN nms[i + 1] ELSE None

\* lines 707-710: the point rebuilt about centre from the template tpl
RebuiltPoint(tpl, coef, rot, centre) ==
    LET rbld == [j \in 1..3 |-> FAdd(FMul(Milli(tpl[j]), coef),
                                     FMul(Milli(tpl[j + 3]), FSub(FP(Tick), coef)))]
    IN  [k \in 1..3 |->
            FAdd(FAdd(FAdd(FMul(rbld[1], rot[1][k]), FMul(rbld[2], rot[2][k])),
                      FMul(rbld[3], rot[3][k])),
                 FP(centre[k] * Tick))]

\* some coordinate of some point of nvec is NaN
HasNaN(nvec) == \E i \in 1..Len(nvec) : \E k \in 1..3 : nvec[i][k].nan

-----------------------------------------------------------------------------
(* Specification SpecRebuild: one call of rebuild_one(vec, sc) on a chain  *)
(* of up to MaxLen alpha carbons that starts at the origin and continues   *)
(* by steps from Bonds.                                                    *)

\* bound: chains have 0..MaxLen points
MaxLen == 4

\* steps between subsequent alpha carbons: equal and unequal lengths, a
\* reversal, a straight continuation, a step along the z axis
Bonds == {<<4, 0, 0>>, <<-4, 0, 0>>, <<0, 4, 0>>, <<3, 0, 2>>, <<4, 0, 4>>}

RECURSIVE Chains(_)
Chains(n) ==
    IF n = 0 THEN {<<>>}
    ELSE IF n = 1 THEN {<<Zero3>>}
    ELSE {Append(c, VAdd(c[n - 1], b)) : c \in Chains(n - 1), b \in Bonds}

\* residue names held by the modeler; "UNK" has no entry in SIDECNT
NameCycle == <<"TRP", "GLY", "UNK", "ALA">>

\* the squared distances |c3 - c1|^2 that occur in such chains, and the
\* scatter coefficient of each distance in ticks, computed once
Span2s == {Dot(VAdd(a, b), VAdd(a, b)) : a \in Bonds, b \in Bonds}

CoefOfSpan2 == [n2 \in Span2s |-> FP(DToTicks(_calc_scatter_coef(Norm(n2))))]

\* n names, starting at position shift of NameCycle
Names(n, shift) ==
    [i \in 1..n |-> NameCycle[((i - 1 + shift) % Len(NameCycle)) + 1]]

InitRebuild ==
    /\ np_err \in ErrSettings
    /\ pc = "rebuild_one"
    /\ \E n \in 0..MaxLen : \E vec \in Chains(n) :
          \/ \E shift \in {0, 1, 3} :
                 args = [vec |-> vec, sc |-> TRUE, nms |-> Names(n, shift)]
          \/ n >= 1 /\ args = [vec |-> vec, sc |-> TRUE, nms |-> Names(n - 1, 1)]
          \/ args = [vec |-> vec, sc |-> FALSE, nms |-> Names(n, 0)]
    /\ locals = <<>>
    /\ ret = None

\* lines 698-702: vec[2] does not exist for a chain of fewer than 3 points
Pad ==
    /\ pc = "rebuild_one"
    /\ IF Len(args.vec) < 3
       THEN /\ pc' = "raised"
            /\ ret' = IndexError
            /\ UNCHANGED locals
       ELSE /\ pc' = "loop"
            /\ locals' = [vec  |-> Padded(args.vec),
                          nvec |-> [i \in 1..(Len(Padded(args.vec)) - 2) |->
                                       [k \in 1..3 |-> FP(0)]],
                          i    |-> 0,
                          centres |-> <<>>,
                          passes  |-> <<>>]
            /\ UNCHANGED ret
    /\ UNCHANGED <<np_err, args>>

\* lines 704-710: one pass of the loop; centres records the middle point of
\* each triplet used so far, passes the triplet, the name, the coefficient
\* and the matrix of each pass
RebuildResidue ==
    /\ pc = "loop"
    /\ locals.i < Len(locals.vec) - 2
    /\ LET i    == locals.i
           r    == _calc_rot_mtx(locals.vec[i + 1], locals.vec[i + 2],
                                 locals.vec[i + 3], np_err)
           coef == CoefOfSpan2[r.rdnorm2]
           name == NameAt(args.nms, args.sc, i)
       IN  IF r.raised # None
           THEN /\ pc' = "raised"
                /\ ret' = r.raised
                /\ np_err' = r.err
                /\ UNCHANGED locals
           ELSE IF name = None
           THEN /\ pc' = "raised"
                /\ ret' = IndexError
                /\ np_err' = r.err
                /\ UNCHANGED locals
           ELSE IF name \notin DOMAIN SIDECNT
           THEN /\ pc' = "raised"
                /\ ret' = KeyError
                /\ np_err' = r.err
                /\ UNCHANGED locals
           ELSE /\ locals' = [locals EXCEPT
                                 !.nvec[i + 1] = RebuiltPoint(SIDECNT[name], coef, r.rot,
                                                              locals.vec[i + 2]),
                                 !.i = i + 1,
                                 !.centres = Append(@, locals.vec[i + 2]),
                                 !.passes = Append(@,
                                     [triplet |-> <<locals.vec[i + 1], locals.vec[i + 2],
                                                    locals.vec[i + 3]>>,
                                      name |-> name, coef |-> coef, rot |-> r.rot])]
                /\ np_err' = r.err
                /\ UNCHANGED <<pc, ret>>
    /\ UNCHANGED args

\* line 712
ReturnNvec ==
    /\ pc = "loop"
    /\ locals.i = Len(locals.vec) - 2
    /\ pc' = "returned"
    /\ ret' = locals.nvec
    /\ UNCHANGED <<np_err, args, locals>>

NextRebuild == Pad \/ RebuildResidue \/ ReturnNvec

SpecRebuild == InitRebuild /\ [][NextRebuild]_vars

-----------------------------------------------------------------------------
(* Properties of rebuild_one.                                              *)

\* C5 as stated: on a chain of any length n >= 1 the call returns exactly n
\* points; the only errors are those of a degenerate triplet and of an
\* unknown residue name.
C5_AnyLength ==
    /\ pc = "returned" => Len(ret) = Len(args.vec)
    /\ (pc = "raised" /\ Len(args.vec) >= 1)
           => ret \in {FloatingPointError, KeyError}

\* C5: on a chain of fewer than 3 points the call raises IndexError before
\* it rebuilds anything; on a chain of n >= 3 points the loop makes at most
\* n passes, and a call that returns has returned exactly n points, the
\* i-th of them built from the triplet whose middle point is vec[i].
C5_ReturnsNPoints ==
    /\ (pc # "rebuild_one" /\ Len(args.vec) < 3)
           => pc = "raised" /\ ret = IndexError
    /\ pc = "loop"
           => /\ Len(args.vec) >= 3
              /\ locals.i <= Len(args.vec)
              /\ Len(locals.centres) = locals.i
    /\ pc = "returned"
           => /\ Len(args.vec) >= 3
              /\ Len(ret) = Len(args.vec)
              /\ locals.centres = args.vec

\* a chain of MaxLen points has been rebuilt without NaN
C5_LongChainRebuilt ==
    /\ pc = "returned" /\ Len(args.vec) = MaxLen
    /\ Len(ret) = MaxLen /\ ~HasNaN(ret)

\* the i-th triplet of the padded chain
Triplet(vec, i) == [c1 |-> vec[i], c2 |-> vec[i + 1], c3 |-> vec[i + 2]]

\* C6: a degenerate triplet (zero span or zero bisector) makes the local
\* system fail: the loop never gets past such a triplet, the call does not
\* return, and no NaN is put into the result.
C6_DegenerateRaises ==
    pc \in {"loop", "returned"}
        => /\ \A j \in 1..locals.i : NonDegenerate(Triplet(locals.vec, j))
           /\ ~HasNaN(locals.nvec)

\* under numpy's default error setting a call on a chain with a degenerate
\* triplet has returned points with NaN coordinates
C6_NaNReturned ==
    /\ pc = "returned" /\ np_err = ErrDefault
    /\ \E j \in 1..Len(args.vec) : ~NonDegenerate(Triplet(locals.vec, j))
    /\ HasNaN(ret)

\* position j (from 1) of the chain has a residue name without an entry in
\* SIDECNT
UnknownAt(j) == j \in DOMAIN args.nms /\ args.nms[j] \notin DOMAIN SIDECNT

\* C13: a call with sc = True on a chain that holds a residue name without
\* an entry in SIDECNT never returns: the loop rebuilds only positions in
\* front of the first such name, each with the template of its own name,
\* and the call ends with an error; when no other error comes first it is
\* the KeyError of the lookup at the first such position.
C13_UnknownResidueFails ==
    (args.sc /\ Len(args.vec) >= 3
        /\ \E j \in 1..Len(args.vec) : UnknownAt(j)) =>
        /\ pc # "returned"
        /\ pc = "loop" =>
               \A j \in 1..locals.i :
                   /\ ~UnknownAt(j)
                   /\ locals.passes[j].name = args.nms[j]
        /\ pc = "raised" =>
               /\ ret \in {KeyError, FloatingPointError, IndexError}
               /\ \A j \in 1..locals.i : ~UnknownAt(j)
               /\ ret = KeyError <=>
                      (UnknownAt(locals.i + 1) /\ np_err = ErrDefault)
                      \/ (UnknownAt(locals.i + 1)
                          /\ NonDegenerate(Triplet(locals.vec, locals.i + 1)))

\* a call that had rebuilt two residues when the third, of unknown type,
\* made it fail
C13_FailedAfterTwo ==
    /\ pc = "raised"
    /\ ret = KeyError
    /\ locals.i = 2
    /\ UnknownAt(3)

\* C16: for a chain p_0..p_(n-1) of n >= 3 points the padded chain is the
\* point p_0 - (p_2 - p_1), the n points themselves and the point
\* p_(n-1) + (p_(n-2) - p_(n-3)), both added points being computed from
\* points of the chain only; and the pass for residue i uses the triplet
\* (padded[i], padded[i+1], padded[i+2]), whose middle point is p_i.
C16_PaddingAndTriplets ==
    pc \in {"loop", "returned"} =>
        LET p == args.vec
            n == Len(args.vec)
        IN  /\ n >= 3
            /\ Len(locals.vec) = n + 2
            /\ locals.vec[1] = VSub(p[1], VSub(p[3], p[2]))
            /\ locals.vec[n + 2] = VAdd(p[n], VSub(p[n - 1], p[n - 2]))
            /\ \A j \in 1..n : locals.vec[j + 1] = p[j]
            /\ \A j \in 1..locals.i :
                   /\ locals.passes[j].triplet
                          = <<locals.vec[j], locals.vec[j + 1], locals.vec[j + 2]>>
                   /\ locals.passes[j].triplet[2] = p[j]

\* a chain of three points, whose third point from the end of the padded
\* chain is the first point of the chain, has been rebuilt; the point put
\* in front differs from every point of the chain
C16_ShortestChainPadded ==
    /\ pc = "returned"
    /\ Len(args.vec) = 3
    /\ Len(locals.passes) = 3
    /\ \A j \in 1..3 : locals.vec[1] # args.vec[j]
    /\ locals.passes[3].triplet[3] = VAdd(args.vec[3], VSub(args.vec[2], args.vec[1]))

\* (c * compact + (1 - c) * extended) . R + p for the template tpl, whose
\* first three components are compact and whose last three are extended
Interpolated(tpl, c, R, p) ==
    LET offset == [j \in 1..3 |->
                      FAdd(FMul(FP(c.v), Milli(tpl[j])),
                           FMul(FSub(FP(Tick), FP(c.v)), Milli(tpl[j + 3])))]
    IN  [k \in 1..3 |->
            FAdd(FAdd(FAdd(FMul(offset[1], R[1][k]), FMul(offset[2], R[2][k])),
                      FMul(offset[3], R[3][k])),
                 FP(p[k] * Tick))]

\* the point p as decimals
AsDecimals(p) == [k \in 1..3 |-> FP(p[k] * Tick)]

ZeroTemplate == <<0, 0, 0, 0, 0, 0>>

\* every point rebuilt so far is the interpolated offset of its residue,
\* rotated by the matrix of its pass and moved to its alpha carbon
PointFormulaHolds ==
    pc \in {"loop", "returned"} =>
        \A j \in 1..locals.i :
            locals.nvec[j] = Interpolated(SIDECNT[locals.passes[j].name],
                                          locals.passes[j].coef,
                                          locals.passes[j].rot, args.vec[j])

\* with a template of zeros every pass so far gives the alpha carbon itself
ZeroTemplateGivesCentre ==
    pc \in {"loop", "returned"} =>
        \A j \in 1..locals.i :
            RebuiltPoint(ZeroTemplate, locals.passes[j].coef,
                         locals.passes[j].rot, args.vec[j])
                = AsDecimals(args.vec[j])

\* C17: every rebuilt point equals (c * compact + (1 - c) * extended) . R
\* + p_i for the template of its residue type, the coefficient of its span
\* and the matrix of its triplet; and with templates of zeros every
\* rebuilt point equals its own alpha carbon p_i.
C17_PointFormula == PointFormulaHolds /\ ZeroTemplateGivesCentre

\* the zero template gives the alpha carbon whenever the local system of
\* the pass was computed from a nondegenerate triplet
ZeroTemplateOnFrame ==
    pc \in {"loop", "returned"} =>
        \A j \in 1..locals.i :
            NonDegenerate(Triplet(locals.vec, j)) =>
                RebuiltPoint(ZeroTemplate, locals.passes[j].coef,
                             locals.passes[j].rot, args.vec[j])
                    = AsDecimals(args.vec[j])

\* a returned call with a pass whose matrix is NaN: a template of zeros
\* gives NaN there and not the alpha carbon
C17_ZeroTemplateNaN ==
    /\ pc = "returned"
    /\ \E j \in 1..locals.i :
           /\ locals.passes[j].rot[1][1].nan
           /\ RebuiltPoint(ZeroTemplate, locals.passes[j].coef,
                           locals.passes[j].rot, args.vec[j])[1].nan

-----------------------------------------------------------------------------
(* rebuild_one as one function of its chain, and the trajectory methods.   *)

\* lines 704-712 from pass i on, for the padded chain vec and the points
\* nvec rebuilt so far
RECURSIVE RebuildFrom(_, _, _, _, _, _)
RebuildFrom(vec, sc, nms, err, i, nvec) ==
    IF i = Len(vec) - 2 THEN [raised |-> None, nvec |-> nvec, err |-> err]
    ELSE LET r    == _calc_rot_mtx(vec[i + 1], vec[i + 2], vec[i + 3], err)
             name == NameAt(nms, sc, i)
         IN  IF r.raised # None
             THEN [raised |-> r.raised, nvec |-> <<>>, err |-> r.err]
             ELSE IF name = None
             THEN [raised |-> IndexError, nvec |-> <<>>, err |-> r.err]
             ELSE IF name \notin DOMAIN SIDECNT
             THEN [raised |-> KeyError, nvec |-> <<>>, err |-> r.err]
             ELSE RebuildFrom(vec, sc, nms, r.err, i + 1,
                              Append(nvec, RebuiltPoint(SIDECNT[name],
                                                        CoefOfSpan2[r.rdnorm2],
                                                        r.rot, vec[i + 2])))

\* self.rebuild_one(vec, sc) of a modeler with the names nms, entered under
\* the error setting err
rebuild_one(vec, sc, nms, err) ==
    IF Len(vec) < 3 THEN [raised |-> IndexError, nvec |-> <<>>, err |-> err]
    ELSE RebuildFrom(Padded(vec), sc, nms, err, 0, <<>>)

\* a trajectory read with the chains of every frame in reverse
ChainAtReversed(traj, f, c) == traj[f][Len(traj[f]) + 1 - c]

\* line 715: the chain j of the frame i of traj that the comprehension is at
ChainAt(traj, f, c) == traj[f][c]

-----------------------------------------------------------------------------
(* Specification SpecTraj: one call of calculate_cb_traj(traj) or          *)
(* calculate_sc_traj(traj) on a trajectory of up to MaxFrames frames.      *)

\* bound: trajectories have 0..MaxFrames frames
MaxFrames == 2

\* a chain from its first point and its bonds
RECURSIVE ChainOf(_, _)
ChainOf(start, bonds) ==
    IF bonds = <<>> THEN <<start>>
    ELSE <<start>> \o ChainOf(VAdd(start, Head(bonds)), Tail(bonds))

BentChain == ChainOf(Zero3, << <<4, 0, 0>>, <<0, 4, 0>> >>)

LongChain == ChainOf(<<1, 2, 3>>, << <<4, 0, 0>>, <<3, 0, 2>>, <<0, 4, 0>> >>)

TiltedChain == ChainOf(<<0, 0, 5>>, << <<3, 0, 2>>, <<4, 0, 4>> >>)

ShortChain == ChainOf(Zero3, << <<4, 0, 0>> >>)

\* the frames that trajectories are made of: one, two and three chains of
\* equal and of unequal lengths, and a frame with a chain of two points
Frames ==
    {<<BentChain>>, <<BentChain, TiltedChain>>,
     <<TiltedChain, LongChain, BentChain>>, <<BentChain, ShortChain>>}

\* the names held by the modeler: the fourth has no entry in SIDECNT
TrajNames == <<"TRP", "GLY", "ALA", "UNK">>

RECURSIVE Trajs(_)
Trajs(n) ==
    IF n = 0 THEN {<<>>}
    ELSE Trajs(n - 1) \cup {Append(t, f) : t \in Trajs(n - 1), f \in Frames}

InitTraj ==
    /\ np_err \in ErrSettings
    /\ pc = "_calculate_traj"
    /\ \E traj \in Trajs(MaxFrames), sc \in BOOLEAN :
           args = [traj |-> traj, sc |-> sc, nms |-> TrajNames]
    /\ locals = [f |-> 1, c |-> 1, out |-> <<>>, frame |-> <<>>]
    /\ ret = None

\* line 715, inner comprehension: rebuild_one on the next chain of frame f
RebuildChain ==
    /\ pc = "_calculate_traj"
    /\ locals.f <= Len(args.traj)
    /\ locals.c <= Len(args.traj[locals.f])
    /\ \E r \in {rebuild_one(ChainAt(args.traj, locals.f, locals.c),
                              args.sc, args.nms, np_err)} :
           /\ np_err' = r.err
           /\ IF r.raised # None
              THEN /\ pc' = "raised"
                   /\ ret' = r.raised
                   /\ UNCHANGED locals
              ELSE /\ locals' = [locals EXCEPT !.c = @ + 1,
                                               !.frame = Append(@, r.nvec)]
                   /\ UNCHANGED <<pc, ret>>
    /\ UNCHANGED args

\* line 715, outer comprehension: the frame f is complete
CloseFrame ==
    /\ pc = "_calculate_traj"
    /\ locals.f <= Len(args.traj)
    /\ locals.c = Len(args.traj[locals.f]) + 1
    /\ locals' = [locals EXCEPT !.f = @ + 1, !.c = 1,
                                !.out = Append(@, locals.frame),
                                !.frame = <<>>]
    /\ UNCHANGED <<np_err, pc, args, ret>>

\* line 715: the array of all frames is returned
ReturnTraj ==
    /\ pc = "_calculate_traj"
    /\ locals.f = Len(args.traj) + 1
    /\ pc' = "returned"
    /\ ret' = locals.out
    /\ UNCHANGED <<np_err, args, locals>>

NextTraj == RebuildChain \/ CloseFrame \/ ReturnTraj

SpecTraj == InitTraj /\ [][NextTraj]_vars

\* C12: a trajectory call that returns has returned as many frames as it
\* was given, in every frame as many chains as that frame has, and at
\* frame f, chain c exactly what rebuild_one gives for the input chain at
\* (f, c) alone; the error setting is the one the call was entered with.
C12_TrajectoryChainwise ==
    pc = "returned" =>
        /\ Len(ret) = Len(args.traj)
        /\ \A f \in 1..Len(args.traj) :
               /\ Len(ret[f]) = Len(args.traj[f])
               /\ \A c \in 1..Len(args.traj[f]) :
                      LET alone == rebuild_one(args.traj[f][c], args.sc,
                                               args.nms, np_err)
                      IN  alone.raised = None /\ ret[f][c] = alone.nvec

\* a returned trajectory of MaxFrames frames, one of them with three
\* chains of unequal lengths that were rebuilt to different points
C12_SeveralChainsReturned ==
    /\ pc = "returned"
    /\ Len(ret) = MaxFrames
    /\ \E f \in 1..Len(ret) :
           /\ Len(ret[f]) = 3
           /\ Len(ret[f][1]) # Len(ret[f][2])
           /\ ret[f][1] # ret[f][3]

\* C14: with sc = False every pass uses the template of "ALA", no error of
\* a name lookup can end the call, and what is returned is what a modeler
\* without any names returns; with sc = True the pass for position j uses
\* the name stored at index j and rebuilds the point from its template.
C14_FlagSelectsNames ==
    /\ (~args.sc /\ pc \in {"loop", "returned"}) =>
           \A j \in 1..locals.i : locals.passes[j].name = "ALA"
    /\ (~args.sc /\ pc = "raised" /\ Len(args.vec) >= 3) =>
           ret \notin {KeyError, IndexError}
    /\ (~args.sc /\ pc = "returned") =>
           ret = rebuild_one(args.vec, FALSE, <<>>, np_err).nvec
    /\ (args.sc /\ pc \in {"loop", "returned"}) =>
           \A j \in 1..locals.i :
               /\ locals.passes[j].name = args.nms[j]
               /\ locals.nvec[j] = RebuiltPoint(SIDECNT[args.nms[j]],
                                                locals.passes[j].coef,
                                                locals.passes[j].rot, args.vec[j])

\* a call with sc = False has returned although the modeler holds a name
\* without an entry in SIDECNT, and with other points than the names of
\* the modeler would give
C14_NamesNotRead ==
    /\ pc = "returned"
    /\ ~args.sc
    /\ UnknownAt(3)
    /\ ret[1] # RebuiltPoint(SIDECNT[args.nms[1]], locals.passes[1].coef,
                             locals.passes[1].rot, args.vec[1])

-----------------------------------------------------------------------------
(* Superposition (kabsch, rmsd, dynamic_kabsch).  Coordinates are integers *)
(* counting ticks; a weight list is kept up to a common positive factor,   *)
(* which np.average, the sign pattern of the cross-covariance matrix and   *)
(* the weighted rmsd do not depend on, as integers 0..Tick.  Products of   *)
(* coordinates are exact (big naturals with a sign).                       *)

ZeroDivisionError == "ZeroDivisionError"

\* f itself, with all its values computed
Evaluated(f) == IF f = f THEN f ELSE f

RECURSIVE SumSeq(_)
SumSeq(s) == IF s = <<>> THEN 0 ELSE Head(s) + SumSeq(Tail(s))

\* weights=None, kept as the empty list: "if weights" treats both alike
NoWeights == <<>>

\* weights=None counts every point once
WeightsOrOnes(weights, n) ==
    IF weights = NoWeights THEN [i \in 1..n |-> 1] ELSE weights

\* sum over i >= from of the quotients and of the remainders of
\* w[i] * a[i][k] / tot, taken with the sign of a[i][k]
RECURSIVE AvgTerms(_, _, _, _, _)
AvgTerms(a, w, k, tot, from) ==
    IF from > Len(a) THEN <<0, 0>>
    ELSE LET qr   == MulDivRem(w[from], Abs(a[from][k]), tot)
             rest == AvgTerms(a, w, k, tot, from + 1)
             sg   == Sign(a[from][k])
         IN  <<sg * qr[1] + rest[1], sg * qr[2] + rest[2]>>

\* np.average(a, axis=0, weights=weights) for a weight sum that is not 0,
\* each coordinate rounded down to a tick
Average(a, weights) ==
    LET w   == WeightsOrOnes(weights, Len(a))
        tot == SumSeq(w)
        avg(k) == LET s == AvgTerms(a, w, k, tot, 1)
                  IN  s[1] + (s[2] \div tot)
    IN  <<avg(1), avg(2), avg(3)>>

\* a - com, row by row
Centred(a, com) == Evaluated([i \in 1..Len(a) |-> VSub(a[i], com)])

\* floor(a / d) and a mod d for a big natural a and an integer d > 0 with
\* 3 * d < 2^31, limb by limb from the top: st is <<quotient, remainder>>
RECURSIVE BDivIntC(_, _, _, _)
BDivIntC(a, d, i, st) ==
    IF i = 0 \/ Len(st) # 2 THEN st
    ELSE LET hi == MulDivRem(st[2], Base, d)
             lo == hi[2] + a[i]
         IN  BDivIntC(a, d, i - 1,
                      <<BAdd(BShiftLimbs(st[1], 1), BFromInt(hi[1] + lo \div d)),
                        lo % d>>)

BDivInt(a, d) == BDivIntC(a, d, Len(a), <<<<>>, 0>>)

\* floor(sqrt(a)) of a big natural a
BSqrtInt(a) ==
    IF BBitLen(a) <= 30 THEN BFromInt(Isqrt(BToInt(a))) ELSE BSqrt(a)

\* |x * y| exactly
BProd(x, y) == BMul(BFromInt(Abs(x)), BFromInt(Abs(y)))

\* sum over i >= from of w[i] * |t[i][j] * q[i][k]| for the terms of sign sg
RECURSIVE CovTerms(_, _, _, _, _, _, _)
CovTerms(w, t, q, j, k, sg, from) ==
    IF from > Len(t) THEN <<>>
    ELSE LET rest == CovTerms(w, t, q, j, k, sg, from + 1)
         IN  IF Sign(t[from][j]) * Sign(q[from][k]) = sg /\ w[from] > 0
             THEN BAdd(BMulSmall(BProd(t[from][j], q[from][k]), w[from]), rest)
             ELSE rest

\* entry (j, k) of c = np.dot(weights * t.T, q): its sign and its magnitude
CovEntry(w, t, q, j, k) ==
    LET pos == CovTerms(w, t, q, j, k, 1, 1)
        neg == CovTerms(w, t, q, j, k, -1, 1)
        cmp == BCmp(pos, neg)
    IN  [sg |-> cmp, mag |-> IF cmp >= 0 THEN BSub(pos, neg) ELSE BSub(neg, pos)]

\* line 804
CrossCov(weights, t, q) ==
    LET w == WeightsOrOnes(weights, Len(t))
        row(j) == <<CovEntry(w, t, q, j, 1), CovEntry(w, t, q, j, 2),
                    CovEntry(w, t, q, j, 3)>>
    IN  <<row(1), row(2), row(3)>>

IsDiagonal(c) == \A j \in 1..3 : \A k \in 1..3 : j # k => c[j][k].sg = 0

\* the sign of np.linalg.det(c) for a diagonal c
DetSign(c) == c[1][1].sg * c[2][2].sg * c[3][3].sg

\* the axes on which a diagonal c has its smallest singular value: one of
\* them is the third singular direction of np.linalg.svd(c)
Smallest(c) ==
    {k \in 1..3 : \A j \in 1..3 : BCmp(c[k][k].mag, c[j][j].mag) <= 0}

Diag(r) == <<<<r[1], 0, 0>>, <<0, r[2], 0>>, <<0, 0, r[3]>>>>

Identity3 == Diag(<<1, 1, 1>>)

\* lines 805-810 for a diagonal c.  np.linalg.svd(c) returns v with columns
\* a[m] * e[p[m]] and w with rows b[m] * e[p[m]], where p sorts the axes by
\* falling |c[k][k]| and a[m] * b[m] is the sign of c[p[m]][p[m]]; for a
\* singular value 0 the signs a[m] and b[m] are independent of each other.
\* np.dot(np.dot(w.T, d), v.T) is then diagonal with entries
\* d[m] * a[m] * b[m]; d[3] = -1 exactly when det(c) < 0.  The result is the
\* set of the matrices the call can return.
RotationsOf(c) ==
    {Diag(r) : r \in {r \in [1..3 -> {-1, 1}] :
        \E last \in Smallest(c) :
            \A k \in 1..3 :
                c[k][k].sg # 0 =>
                    r[k] = c[k][k].sg * (IF DetSign(c) < 0 /\ k = last THEN -1 ELSE 1)}}

\* lines 797-804: the cross-covariance matrix c
KabschCov(target, query, weights, concentric) ==
    LET t == IF concentric THEN target
             ELSE Centred(target, Average(target, weights))
        q == IF concentric THEN query
             ELSE Centred(query, Average(query, weights))
    IN  CrossCov(weights, t, q)

\* kabsch(target, query, weights, concentric): the matrices it can return;
\* np.average raises ZeroDivisionError for a weight sum of 0
kabsch(target, query, weights, concentric) ==
    IF ~concentric /\ SumSeq(WeightsOrOnes(weights, Len(target))) = 0
    THEN [raised |-> ZeroDivisionError, rots |-> {}]
    ELSE [raised |-> None,
          rots |-> RotationsOf(KabschCov(target, query, weights, concentric))]

\* determinant of a 3 x 3 integer matrix
Det3(m) ==
      m[1][1] * (m[2][2] * m[3][3] - m[2][3] * m[3][2])
    - m[1][2] * (m[2][1] * m[3][3] - m[2][3] * m[3][1])
    + m[1][3] * (m[2][1] * m[3][2] - m[2][2] * m[3][1])

-----------------------------------------------------------------------------
(* Specification SpecKabsch: one call of kabsch on a point set and a       *)
(* mirror image of it whose cross-covariance matrix is diagonal.           *)

\* bound: the point sets are scaled by 1..MaxScale
MaxScale == 2

\* a tetrahedron, a square in the plane z = 0, a segment on the x axis, a
\* doubled point
Shapes ==
    { << <<1, 1, 1>>, <<1, -1, -1>>, <<-1, 1, -1>>, <<-1, -1, 1>> >>,
      << <<1, 1, 0>>, <<1, -1, 0>>, <<-1, 1, 0>>, <<-1, -1, 0>> >>,
      << <<1, 0, 0>>, <<-1, 0, 0>> >>,
      << <<1, 1, 0>>, <<1, 1, 0>> >> }

\* the shape scaled to s units
Scaled(shape, s) ==
    [i \in 1..Len(shape) |-> [k \in 1..3 |-> shape[i][k] * s * Tick]]

\* the image of a point set under the reflections d[k] = -1
Image(a, d) == [i \in 1..Len(a) |-> [k \in 1..3 |-> d[k] * a[i][k]]]

\* no weights, equal weights, falling weights in pairs, all weights 0
WeightLists(n) ==
    { NoWeights,
      [i \in 1..n |-> Tick],
      [i \in 1..n |-> IF i <= 2 THEN Tick ELSE Tick \div 2],
      [i \in 1..n |-> 0] }

InitKabsch ==
    /\ np_err = ErrDefault
    /\ pc = "kabsch"
    /\ \E shape \in Shapes, s \in 1..MaxScale, d \in [1..3 -> {-1, 1}],
          concentric \in BOOLEAN :
          \E weights \in WeightLists(Len(shape)) :
              /\ args = [target |-> Scaled(shape, s),
                         query |-> Image(Scaled(shape, s), d),
                         weights |-> weights, concentric |-> concentric]
              /\ IF ~concentric /\ weights # NoWeights /\ SumSeq(weights) = 0
                 THEN TRUE
                 ELSE IsDiagonal(KabschCov(args.target, args.query, weights, concentric))
    /\ locals = <<>>
    /\ ret = None

\* the whole call kabsch(target, query, weights, concentric)
Kabsch ==
    /\ pc = "kabsch"
    /\ LET k == kabsch(args.target, args.query, args.weights, args.concentric)
       IN  IF k.raised # None
           THEN /\ pc' = "raised"
                /\ ret' = k.raised
           ELSE /\ pc' = "returned"
                /\ \E r \in k.rots : ret' = r
    /\ UNCHANGED <<np_err, args, locals>>

NextKabsch == Kabsch

SpecKabsch == InitKabsch /\ [][NextKabsch]_vars

\* the cross-covariance matrix of the call in args
CovOfCall == KabschCov(args.target, args.query, args.weights, args.concentric)

\* C8: kabsch returns a proper rotation, of determinant +1, also when the
\* cross-covariance matrix is singular.
C8_ProperRotation == pc = "returned" => Det3(ret) = 1

\* with a cross-covariance matrix of nonzero determinant the returned
\* matrix does have determinant +1
KabschProperIfRegular ==
    (pc = "returned" /\ DetSign(CovOfCall) # 0) => Det3(ret) = 1

\* kabsch has returned a reflection for a singular cross-covariance matrix
C8_ReflectionReturned ==
    /\ pc = "returned" /\ DetSign(CovOfCall) = 0
    /\ Det3(ret) = -1

-----------------------------------------------------------------------------
(* rmsd and dynamic_kabsch.                                                *)

\* a starting value that a first RMSD of 0 is within _TINY of
NoSentinel == 0 * Tick

\* line 813
_LARGE == 1000 * Tick

\* line 814
_TINY == Tick \div 1000

\* line 824
_MAX_ITER == 100

\* query=None of rmsd
NoQuery == <<>>

\* |p|^2 exactly
SqNorm(p) == BAdd(BAdd(BProd(p[1], p[1]), BProd(p[2], p[2])), BProd(p[3], p[3]))

\* sum over i >= from of w[i] * |diff[i]|^2
RECURSIVE WeightedSq(_, _, _)
WeightedSq(diff, w, from) ==
    IF from > Len(diff) THEN <<>>
    ELSE BAdd(BMulSmall(SqNorm(diff[from]), w[from]), WeightedSq(diff, w, from + 1))

\* line 818
DiffOf(target, query) ==
    IF query = NoQuery THEN target
    ELSE Evaluated([i \in 1..Len(target) |-> VSub(query[i], target[i])])

\* line 819: np.sqrt(np.average(np.sum(_diff ** 2, axis=1), weights=weights))
\* for a weight sum that is not 0, in whole ticks
RootMeanSquare(_diff, weights) ==
    LET w    == WeightsOrOnes(weights, Len(_diff))
        mean == BDivInt(WeightedSq(_diff, w, 1), SumSeq(w))[1]
    IN  BToInt(BSqrtInt(mean))

\* line 820, _rmsd > _TINY, decided on the squares so that no rounding to
\* whole ticks enters: sum(w * |d|^2) > _TINY^2 * sum(w)
ExceedsTiny(_diff, weights) ==
    LET w == WeightsOrOnes(weights, Len(_diff))
    IN  BCmp(WeightedSq(_diff, w, 1),
             BMulSmall(BFromInt(SumSeq(w)), _TINY * _TINY)) > 0

\* an rmsd that reports every value as it is
rmsdAsComputed(target, query, weights) ==
    RootMeanSquare(DiffOf(target, query), weights)

\* rmsd(target, query, weights) for a weight sum that is not 0, in ticks
rmsd(target, query, weights) ==
    LET _diff == DiffOf(target, query)
    IN  IF ExceedsTiny(_diff, weights) THEN RootMeanSquare(_diff, weights) ELSE 0

\* e^-n for n = 0, 1, ... in ticks; it is below one tick from n = 10 on
ExpTable == <<10000, 3679, 1353, 498, 183, 67, 25, 9, 3, 1>>

\* term - term * f / 1 + term * f^2 / 2 - ..., the series of e^-f from its
\* k-th term on, for a fraction of f ticks
RECURSIVE ExpSeries(_, _, _)
ExpSeries(f, term, k) ==
    IF term = 0 THEN 0
    ELSE term - ExpSeries(f, (term * f) \div (Tick * (k + 1)), k + 1)

\* e^-x in ticks for an exponent of x >= 0 ticks
ExpNeg(x) ==
    IF x \div Tick >= Len(ExpTable) THEN 0
    ELSE (ExpTable[(x \div Tick) + 1] * ExpSeries(x % Tick, Tick, 0)) \div Tick

\* np.exp(-x) is 0.0 from this exponent on (e^-745.1332 is the smallest double)
ExpUnderflow == 745 * Tick + 1332

RECURSIVE MinSeq(_)
MinSeq(s) == IF Len(s) = 1 THEN s[1] ELSE Min(s[1], MinSeq(Tail(s)))

\* The list w of dynamic_kabsch is kept as the exponents x with
\* w[i] = e^-x[i].  Weights(x) is that list divided by its largest member:
\* all 0 when every np.exp underflowed.
Weights(x) ==
    IF MinSeq(x) > ExpUnderflow THEN [i \in 1..Len(x) |-> 0]
    ELSE Evaluated([i \in 1..Len(x) |->
                      IF x[i] > ExpUnderflow THEN 0 ELSE ExpNeg(x[i] - MinSeq(x))])

\* exponents whose divisor is the RMSD itself, kept above 0 only
NewExponentsUnfloored(_diff, _rmsd) ==
    Evaluated([i \in 1..Len(_diff) |->
        LET x == BDivInt(SqNorm(_diff[i]), Max(_rmsd, 1))[1]
        IN  IF BCmp(x, BFromInt(ExpUnderflow)) > 0 THEN ExpUnderflow + 1
            ELSE BToInt(x)])

\* line 839: the exponents np.sum(_diff ** 2, axis=1) / max(_rmsd, 2.),
\* cut off above ExpUnderflow
NewExponents(_diff, _rmsd) ==
    Evaluated([i \in 1..Len(_diff) |->
        LET x == BDivInt(SqNorm(_diff[i]), Max(_rmsd, 2 * Tick))[1]
        IN  IF BCmp(x, BFromInt(ExpUnderflow)) > 0 THEN ExpUnderflow + 1
            ELSE BToInt(x)])

\* np.dot(p, r) for one row p
RowTimes(p, r) ==
    LET col(k) == p[1] * r[1][k] + p[2] * r[2][k] + p[3] * r[3][k]
    IN  <<col(1), col(2), col(3)>>

\* a check that is always satisfied
ConvergedAlways(_current, _rmsd) == TRUE

\* line 836
Converged(_current, _rmsd) == Abs(_current - _rmsd) < _TINY

\* a return of the RMSD just computed
ReturnCurrent(_rmsd, _current, r, t_com, q_com, earlier) ==
    [rmsd |-> _current, r |-> r, t_com |-> t_com, q_com |-> q_com]

\* a return of the rotation and the centroids of the pass before
ReturnEarlierFit(_rmsd, _current, r, t_com, q_com, earlier) ==
    [rmsd |-> _rmsd, r |-> earlier.r, t_com |-> earlier.t_com,
     q_com |-> earlier.q_com]

\* line 837: of the locals of the pass, _rmsd, r, t_com and q_com are
\* returned; _current and what the pass before computed are not
ReturnValue(_rmsd, _current, r, t_com, q_com, earlier) ==
    [rmsd |-> _rmsd, r |-> r, t_com |-> t_com, q_com |-> q_com]

-----------------------------------------------------------------------------
(* Specification SpecDK: one call of dynamic_kabsch(target, query).  The   *)
(* point sets lie on the x axis, or are one and the same tetrahedron, so   *)
(* that the cross-covariance matrix of every iteration is diagonal.        *)

Exception == "Exception"

\* bound: lattice coordinates of the query run over 0..MaxX units
MaxX == 2

\* points on the x axis at xs[i] * unit ticks
OnAxis(xs, unit) == [i \in 1..Len(xs) |-> <<xs[i] * unit, 0, 0>>]

\* targets of the lattice pairs, in units
AxisTargets == {<<0, 2, 1>>}

\* a pair of chains, in quarters of a unit, that keeps changing its RMSD by
\* more than _TINY for over 100 iterations
SlowTarget == <<-16, -7, -7, -11, 9>>

SlowQuery == <<-12, 16, 6, 12, -1>>

\* a pair whose first RMSD is 1000, in units
FarTarget == <<0, 0>>

FarQuery == <<0, 2000>>

\* a copy of the lattice target with one point moved by less than _TINY,
\* in ticks
NearTarget == <<0, 2 * Tick, Tick>>

NearQuery == <<0, 2 * Tick, Tick + 8>>

\* a pair so far apart that every weight of the second pass underflows to 0
LostQuery == <<0, 2002>>

Tetrahedron == << <<1, 1, 1>>, <<1, -1, -1>>, <<-1, 1, -1>>, <<-1, -1, 1>> >>

DKInputs ==
    {[target |-> OnAxis(t, Tick), query |-> OnAxis(q, Tick)] :
         t \in AxisTargets, q \in [1..3 -> 0..MaxX]}
    \cup {[target |-> OnAxis(SlowTarget, Tick \div 4),
           query |-> OnAxis(SlowQuery, Tick \div 4)],
          [target |-> OnAxis(FarTarget, Tick), query |-> OnAxis(FarQuery, Tick)],
          [target |-> OnAxis(FarTarget, Tick), query |-> OnAxis(LostQuery, Tick)],
          [target |-> OnAxis(NearTarget, 1), query |-> OnAxis(NearQuery, 1)],
          [target |-> Scaled(Tetrahedron, 1), query |-> Scaled(Tetrahedron, 1)]}

\* what no pass has computed yet
NoFit == [set |-> FALSE, current |-> _LARGE, raw |-> _LARGE, diff |-> <<>>,
          r |-> Identity3, t_com |-> Zero3, q_com |-> Zero3]

InitDK ==
    /\ np_err = ErrDefault
    /\ pc = "loop"
    /\ args \in DKInputs
    /\ locals = [i |-> 0, _rmsd |-> _LARGE,
                 w |-> [j \in 1..Len(args.target) |-> 0],
                 calls |-> 0, earlier |-> NoFit, fit |-> NoFit]
    /\ ret = None

\* lines 828-832: the weights in use, the centroids, the centred sets and
\* what kabsch can return for them
Superposed(target, query, x) ==
    LET w     == Weights(x)
        t_com == Average(target, w)
        q_com == Average(query, w)
        t     == Centred(target, t_com)
        q     == Centred(query, q_com)
    IN  [w |-> w, t_com |-> t_com, q_com |-> q_com, t |-> t, q |-> q,
         rots |-> kabsch(t, q, w, TRUE).rots]

\* lines 833-835 and 839 for the rotation r: the residuals, their rmsd and
\* the exponents of the next weights
Residuals(s, r) ==
    LET _diff    == Evaluated([j \in 1..Len(s.q) |-> VSub(RowTimes(s.q[j], r), s.t[j])])
        _current == rmsd(_diff, NoQuery, s.w)
    IN  [fit |-> [set |-> TRUE, current |-> _current,
                  raw |-> RootMeanSquare(_diff, s.w), diff |-> _diff,
                  r |-> r, t_com |-> s.t_com, q_com |-> s.q_com],
         w |-> NewExponents(_diff, _current)]

\* lines 828-839: one pass of the loop.  calls counts the calls of kabsch;
\* fit holds what this pass computed (current: what rmsd returned, raw: the
\* root mean square of line 819, diff: the residuals) and earlier what the pass before it
\* computed.
Iterate ==
    /\ pc = "loop"
    /\ locals.i < _MAX_ITER
    /\ IF SumSeq(Weights(locals.w)) = 0
       THEN /\ pc' = "raised"
            /\ ret' = ZeroDivisionError
            /\ UNCHANGED locals
       ELSE \E s \in {Superposed(args.target, args.query, locals.w)} :
            \E r \in s.rots :
            \E d \in {Residuals(s, r)} :
                IF Converged(d.fit.current, locals._rmsd)
                THEN /\ pc' = "returned"
                     /\ ret' = ReturnValue(locals._rmsd, d.fit.current, r,
                                        s.t_com, s.q_com, locals.fit)
                     /\ locals' = [locals EXCEPT
                                      !.calls = @ + 1,
                                      !.earlier = locals.fit,
                                      !.fit = d.fit]
                ELSE /\ locals' = [locals EXCEPT
                                      !.i = @ + 1,
                                      !._rmsd = d.fit.current,
                                      !.w = d.w,
                                      !.calls = @ + 1,
                                      !.earlier = locals.fit,
                                      !.fit = d.fit]
                     /\ UNCHANGED <<pc, ret>>
    /\ UNCHANGED <<np_err, args>>

\* lines 840-841: the loop ran out
NotConverged ==
    /\ pc = "loop"
    /\ locals.i = _MAX_ITER
    /\ pc' = "raised"
    /\ ret' = Exception
    /\ UNCHANGED <<np_err, args, locals>>

NextDK == Iterate \/ NotConverged

SpecDK == InitDK /\ [][NextDK]_vars

\* every cross-covariance matrix met is diagonal
DKDiagonal ==
    pc = "loop" =>
        LET w == Weights(locals.w)
        IN  SumSeq(w) > 0 =>
            IsDiagonal(KabschCov(Centred(args.target, Average(args.target, w)),
                                 Centred(args.query, Average(args.query, w)), w, TRUE))

-----------------------------------------------------------------------------
(* Properties of dynamic_kabsch.  A call has converged at iteration k when *)
(* pc = "returned" and locals.calls = k: locals.fit is then what iteration *)
(* k computed and locals.earlier what iteration k-1 computed.              *)

DKReturned == pc = "returned"

\* the rotations r1 and r2 turn the query, taken about the centroid that is
\* returned, into the same points: matrices that differ only where the SVD
\* of a singular matrix is free count as the same
SameOnQuery(r1, r2) ==
    \A j \in 1..Len(args.query) :
        RowTimes(VSub(args.query[j], ret.q_com), r1)
            = RowTimes(VSub(args.query[j], ret.q_com), r2)

\* C1 as stated: when the convergence check holds at an iteration k > 1,
\* the rotation matrix and the two centroids that are returned are those
\* computed in iteration k-1.
C1_EarlierRotationReturned ==
    (DKReturned /\ locals.earlier.set) =>
        /\ ret.t_com = locals.earlier.t_com
        /\ ret.q_com = locals.earlier.q_com
        /\ SameOnQuery(ret.r, locals.earlier.r)

\* C1 amended: when the convergence check holds at iteration k, the rotation
\* matrix and the two centroids that are returned are those computed in
\* iteration k itself, one iteration after the one the returned RMSD is of.
C1_CurrentRotationReturned ==
    DKReturned =>
        /\ ret.r = locals.fit.r
        /\ ret.t_com = locals.fit.t_com
        /\ ret.q_com = locals.fit.q_com

\* a call that converged at some k > 1 with centroids that moved between
\* iterations k-1 and k
C1_CentroidsMoved ==
    /\ DKReturned
    /\ locals.earlier.set
    /\ ret.t_com # locals.earlier.t_com
    /\ ret.q_com # locals.earlier.q_com

\* C2: when the convergence check holds at iteration k, the RMSD returned is
\* the value stored by iteration k-1 (the starting value _LARGE when k = 1),
\* not the RMSD computed in iteration k.
C2_EarlierRmsdReturned ==
    DKReturned =>
        ret.rmsd = (IF locals.earlier.set THEN locals.earlier.current ELSE _LARGE)

\* a call that converged at some k > 1 with an RMSD that differs from the
\* one of iteration k-1
C2_RmsdChanged ==
    /\ DKReturned
    /\ locals.earlier.set
    /\ locals.fit.current # locals.earlier.current
    /\ ret.rmsd # locals.fit.current

\* C3: a call makes at most _MAX_ITER passes and calls of kabsch; when the
\* check has failed in all of them the only step left raises the exception
\* of line 841; and a result is returned only by a pass whose RMSD is
\* within _TINY of the stored one.
C3_IterationBudget ==
    /\ locals.i <= _MAX_ITER
    /\ locals.calls <= _MAX_ITER
    /\ (pc = "loop" /\ locals.i = _MAX_ITER) =>
           /\ locals.calls = _MAX_ITER
           /\ ENABLED NotConverged
           /\ ~ ENABLED Iterate
    /\ (pc = "raised" /\ ret = Exception) =>
           /\ locals.i = _MAX_ITER
           /\ locals.calls = _MAX_ITER
    /\ DKReturned =>
           /\ locals.fit.set
           /\ Abs(locals.fit.current - locals._rmsd) < _TINY
           /\ ret.rmsd = locals._rmsd

\* a call that ran out of iterations
C3_BudgetExhausted ==
    /\ pc = "raised"
    /\ ret = Exception
    /\ locals.calls = _MAX_ITER

\* the two point sets of the call are one and the same
Identical == args.target = args.query

\* the rotation r maps every point of chain, taken about com, to itself
FixesPoints(r, chain, com) ==
    \A j \in 1..Len(chain) :
        RowTimes(VSub(chain[j], com), r) = VSub(chain[j], com)

\* the points of chain span the space about their centroid
SpansSpace(chain) ==
    LET t == Centred(chain, Average(chain, NoWeights))
    IN  DetSign(KabschCov(t, t, NoWeights, TRUE)) # 0

\* C4 as stated: for two identical point sets the call returns during its
\* first loop iteration, with RMSD 0 and the identity rotation.
C4_ReturnsInFirstIteration ==
    (Identical /\ DKReturned) =>
        /\ locals.calls = 1
        /\ ret.rmsd = 0
        /\ ret.r = Identity3

\* C4 amended: for two identical point sets the call never raises and
\* returns during its second loop iteration, with RMSD 0 and a rotation
\* that maps every centred point to itself; the rotation is the identity
\* when the points span the space.
C4_ReturnsInSecondIteration ==
    Identical =>
        /\ pc # "raised"
        /\ locals.calls <= 2
        /\ DKReturned =>
               /\ locals.calls = 2
               /\ ret.rmsd = 0
               /\ ret.t_com = ret.q_com
               /\ FixesPoints(ret.r, args.query, ret.q_com)
               /\ SpansSpace(args.target) => ret.r = Identity3

\* a call with two identical point sets that span the space has returned
C4_IdenticalReturned ==
    /\ Identical
    /\ DKReturned
    /\ SpansSpace(args.target)
    /\ ret.r = Identity3

\* a call with two identical collinear point sets that returned another
\* matrix than the identity
C4_IdenticalNotIdentity ==
    /\ Identical
    /\ DKReturned
    /\ ret.r # Identity3

\* C11: rmsd reports every root mean square below _TINY as exactly 0 and
\* every other one it reports unchanged; the reported value is the one that
\* dynamic_kabsch compares in its convergence check and, when the check
\* fails, stores as the previous RMSD.
C11_TinyReportedAsZero ==
    locals.fit.set =>
        /\ locals.fit.raw < _TINY => locals.fit.current = 0
        /\ locals.fit.current # 0 => locals.fit.current = locals.fit.raw
        /\ pc = "loop" => locals._rmsd = locals.fit.current
        /\ pc = "returned" => Abs(locals.fit.current - locals._rmsd) < _TINY

\* a pass whose root mean square was positive and below _TINY: it went
\* into the check, and into the previous RMSD, as 0
C11_TinyStored ==
    /\ pc = "loop"
    /\ locals.fit.set
    /\ locals.fit.raw > 0
    /\ locals.fit.raw < _TINY
    /\ locals._rmsd = 0

\* the weight e^-x of the exponent x, in ticks
WeightOf(x) == ExpNeg(Min(x, ExpUnderflow + 1))

\* C18: every weight is 1.0 in the first iteration; after an iteration
\* whose check failed the weight of point i is exp(-x) for the quotient x
\* of its squared residual by the larger of the current RMSD and 2.0; so
\* every weight lies in [0, 1], and it is 1 for a residual of zero.
C18_WeightUpdate ==
    /\ locals.calls = 0 => \A i \in DOMAIN locals.w : locals.w[i] = 0
    /\ \A i \in DOMAIN locals.w :
           /\ locals.w[i] >= 0
           /\ WeightOf(locals.w[i]) \in 0..Tick
           /\ locals.w[i] = 0 => WeightOf(locals.w[i]) = Tick
    /\ (pc = "loop" /\ locals.fit.set) =>
           LET divisor == IF locals.fit.current > 2 * Tick
                          THEN locals.fit.current ELSE 2 * Tick
           IN  \A i \in DOMAIN locals.w :
                   LET x  == locals.w[i]
                       d2 == SqNorm(locals.fit.diff[i])
                   IN  /\ BCmp(BMul(BFromInt(x), BFromInt(divisor)), d2) <= 0
                       /\ x <= ExpUnderflow =>
                              BCmp(d2, BMul(BFromInt(x + 1), BFromInt(divisor))) < 0
                       /\ locals.fit.diff[i] = Zero3 => x = 0

\* after an iteration with an RMSD below 2.0, where the divisor is 2.0,
\* some point has a weight strictly between 0 and 1
C18_FloorInUse ==
    /\ pc = "loop"
    /\ locals.fit.set
    /\ locals.fit.current > 0
    /\ locals.fit.current < 2 * Tick
    /\ \E i \in DOMAIN locals.w :
           WeightOf(locals.w[i]) > 0 /\ WeightOf(locals.w[i]) < Tick

\* C19: a call never returns from its first loop iteration: the RMSD
\* returned is one that an earlier iteration computed from the points,
\* never the starting value _LARGE.
C19_NeverFirstIteration ==
    DKReturned =>
        /\ locals.calls >= 2
        /\ locals.earlier.set
        /\ ret.rmsd = locals.earlier.current

\* a call returns from its first iteration only when the RMSD of that
\* iteration is within _TINY of _LARGE
FirstReturnNearLarge ==
    (DKReturned /\ locals.calls = 1) =>
        Abs(locals.fit.current - _LARGE) < _TINY

\* a call that returned from its first iteration, with _LARGE as its RMSD
C19_SentinelReturned ==
    /\ DKReturned
    /\ locals.calls = 1
    /\ ~locals.earlier.set
    /\ ret.rmsd = _LARGE

-----------------------------------------------------------------------------
(* cabsDock/restraints.py: Restraint and the container Restraints.  The    *)
(* Restraint objects live on a heap, a sequence of their field records; a  *)
(* container's data is a list of references, which are indices into the    *)
(* heap.  A line of restraints is kept as the list of its four fields,     *)
(* distance and weight in ticks.                                           *)

\* the most restraints a container's data holds in the model
MaxData == 4

\* the number of operations performed on the containers
MaxOps == 3

\* the variables naming the containers
Containers == {"a", "b", "c"}

\* lines 8-14: Restraint.__init__
Restraint(line, is_side_chain) ==
    [id1 |-> line[1], id2 |-> line[2], distance |-> line[3],
     weight |-> line[4], sg |-> is_side_chain]

\* lines 22-25: Restraint.update_id on the object r of the heap; the id1 is
\* already replaced when the look-up of id2 fails
RestraintUpdateId(heap, r, ids) ==
    IF heap[r].id1 \notin DOMAIN ids
    THEN [raised |-> KeyError, heap |-> heap]
    ELSE LET h1 == [heap EXCEPT ![r].id1 = ids[@]]
         IN  IF h1[r].id2 \notin DOMAIN ids
             THEN [raised |-> KeyError, heap |-> h1]
             ELSE [raised |-> None, heap |-> [h1 EXCEPT ![r].id2 = ids[@]]]

\* lines 47-50: Restraints.update_id, the loop from position i of data on
RECURSIVE UpdateIdFrom(_, _, _, _)
UpdateIdFrom(heap, data, ids, i) ==
    IF i > Len(data) THEN [raised |-> None, heap |-> heap]
    ELSE LET r == RestraintUpdateId(heap, data[i], ids)
         IN  IF r.raised # None THEN r
             ELSE UpdateIdFrom(r.heap, data, ids, i + 1)

update_id(heap, data, ids) == UpdateIdFrom(heap, data, ids, 1)

\* line 38: copy(arg.data), a new list of the same references
copy(data) == [i \in 1..Len(data) |-> data[i]]

\* line 44: self.data.extend(other.data)
extend(data, other) == data \o other

\* lines 31-33: the restraints of a list of lines, allocated after the
\* objects the heap holds already
FromLines(heap, lines, sg) ==
    [heap |-> heap \o [i \in 1..Len(lines) |-> Restraint(lines[i], sg)],
     data |-> [i \in 1..Len(lines) |-> Len(heap) + i]]

\* the (id1, id2) pairs of the restraints a list of references leads to
IdsOf(heap, data) ==
    [i \in 1..Len(data) |-> <<heap[data[i]].id1, heap[data[i]].id2>>]

\* the pairs of every container
IdsOfAll(heap, datas) == [x \in Containers |-> IdsOf(heap, datas[x])]

LinesOfA ==
    { <<>>,
      << <<"1", "2", 5 * Tick, Tick>> >>,
      << <<"1", "2", 5 * Tick, Tick>>, <<"2", "3", 7 * Tick, Tick>> >> }

LinesOfB ==
    { <<>>,
      << <<"3", "1", 6 * Tick, Tick>> >>,
      << <<"1", "1", 4 * Tick, Tick>> >> }

\* the dictionaries given to update_id: a renumbering that covers every id,
\* and a relabelling that knows the ids "1" and "2" only
IdMaps ==
    { [k \in {"1", "2", "3"} |->
          IF k = "1" THEN "2" ELSE IF k = "2" THEN "3" ELSE "1"],
      [k \in {"1", "2"} |-> IF k = "1" THEN "A1" ELSE "A2"] }

\* a = Restraints(lines), b = Restraints(lines, sg); c is not built yet.
\* Besides the heap and the containers' data, locals keeps for the
\* properties: the containers that exist (built), the container c was built
\* from and its pairs at that time
\* (origin, atCopy), the receivers of the operations since then (since),
\* the containers added to each container (added), and the last operation
\* with the pairs of all containers before it (last).
InitRestraints ==
    /\ np_err = ErrDefault
    /\ pc = "ready"
    /\ \E la \in LinesOfA, lb \in LinesOfB, sg \in BOOLEAN :
           /\ args = [a |-> la, b |-> lb, sg |-> sg]
           /\ \E ra \in {FromLines(<<>>, la, FALSE)} :
              \E rb \in {FromLines(ra.heap, lb, sg)} :
                  locals = [heap |-> rb.heap,
                            data |-> [x \in Containers |->
                                         IF x = "a" THEN ra.data
                                         ELSE IF x = "b" THEN rb.data
                                         ELSE <<>>],
                            built |-> {"a", "b"},
                            ops |-> 0,
                            origin |-> None,
                            atCopy |-> <<>>,
                            since |-> {},
                            added |-> [x \in Containers |-> {}],
                            last |-> [op |-> None, self |-> None,
                                      before |-> <<>>]]
    /\ ret = None

\* lines 30-38: c = Restraints(arg) for a container arg
RestraintsFromRestraints ==
    /\ pc = "ready"
    /\ "c" \notin locals.built
    /\ \E arg \in locals.built :
           /\ locals' = [locals EXCEPT !.data["c"] = copy(locals.data[arg]),
                                       !.built = @ \cup {"c"},
                                       !.origin = arg,
                                       !.atCopy = IdsOf(locals.heap,
                                                        locals.data[arg]),
                                       !.since = {},
                                       !.last = [op |-> "__init__",
                                                 self |-> "c",
                                                 before |-> IdsOfAll(locals.heap,
                                                                     locals.data)]]
           /\ ret' = "c"
    /\ UNCHANGED <<np_err, pc, args>>

\* lines 43-45: self += other
IAdd ==
    /\ pc = "ready"
    /\ locals.ops < MaxOps
    /\ \E self \in locals.built, other \in locals.built :
           /\ Len(locals.data[self]) + Len(locals.data[other]) <= MaxData
           /\ locals' = [locals EXCEPT !.data[self] =
                                           extend(@, locals.data[other]),
                                       !.ops = @ + 1,
                                       !.since = @ \cup {self},
                                       !.added[self] = @ \cup {other},
                                       !.last = [op |-> "__iadd__",
                                                 self |-> self,
                                                 before |-> IdsOfAll(locals.heap,
                                                                     locals.data)]]
           /\ ret' = self
    /\ UNCHANGED <<np_err, pc, args>>

\* lines 47-50: self.update_id(ids); a KeyError leaves the restraints
\* visited so far updated
UpdateId ==
    /\ pc = "ready"
    /\ locals.ops < MaxOps
    /\ \E self \in locals.built, ids \in IdMaps :
           /\ \E r \in {update_id(locals.heap, locals.data[self], ids)} :
                  /\ locals' = [locals EXCEPT !.heap = r.heap,
                                              !.ops = @ + 1,
                                              !.since = @ \cup {self},
                                              !.last = [op |-> "update_id",
                                                        self |-> self,
                                                        before |-> IdsOfAll(locals.heap,
                                                                            locals.data)]]
                  /\ ret' = IF r.raised # None THEN r.raised ELSE self
    /\ UNCHANGED <<np_err, pc, args>>

NextRestraints == RestraintsFromRestraints \/ IAdd \/ UpdateId

SpecRestraints == InitRestraints /\ [][NextRestraints]_vars

\* the container c exists and every operation since it was built had c as
\* its receiver
OnlyTheCopyUsed == "c" \in locals.built /\ locals.since \subseteq {"c"}

\* C21: a container built from another container is independent of it:
\* after any sequence of += and update_id on the copy the original holds as
\* many restraints as before, each with the id1 and id2 it had; and after
\* a += b an update_id on a leaves the restraints of b as they were.
C21_CopyIndependent ==
    /\ OnlyTheCopyUsed =>
           IdsOf(locals.heap, locals.data[locals.origin]) = locals.atCopy
    /\ locals.last.op = "update_id" =>
           \A other \in locals.added[locals.last.self] \ {locals.last.self} :
               IdsOf(locals.heap, locals.data[other]) = locals.last.before[other]

\* the list of the original is its own: operations on the copy leave the
\* number of restraints in the original
OriginalListKept ==
    OnlyTheCopyUsed => Len(locals.data[locals.origin]) = Len(locals.atCopy)

\* building a container and += change the receiver only: every other
\* container keeps its restraints and their ids
OthersKeptByAdding ==
    locals.last.op \in {"__init__", "__iadd__"} =>
        \A x \in Containers \ {locals.last.self} :
            IdsOf(locals.heap, locals.data[x]) = locals.last.before[x]

\* only the copy was used, update_id on it returned, and a restraint of the
\* original has another id1 than it had when the copy was made
C21_OriginalRenumbered ==
    /\ OnlyTheCopyUsed
    /\ locals.last.op = "update_id"
    /\ ret = "c"
    /\ \E i \in DOMAIN locals.atCopy :
           locals.atCopy[i][1] #
               locals.heap[locals.data[locals.origin][i]].id1

====
